---- MODULE Spec2Model ----
(***************************************************************************)
(* A model of the YouTube Data API client (src/src/youtube_api/client.py), *)
(* the average-views calculator (src/scripts/avg_views_last_30d.py) and    *)
(* the HubSpot sync job (src/hubspot/hubspot_avg_views_last_30d.py).       *)
(*                                                                         *)
(* Strings are sequences of one-character strings.  Time is counted in     *)
(* hours.  Every _get call is one step: the request is logged in `reqs`    *)
(* and the upstream's answer is chosen nondeterministically.               *)
(***************************************************************************)
EXTENDS Integers, Sequences, FiniteSets, TLC

VARIABLES
    method,        \* the client method that was called
    cur,           \* the client method whose body is executing
    cont,          \* the calls the called method still has to make
    call_arg,      \* the argument of the current resolve_channel_id call
    identifier,    \* resolve_channel_id's local `identifier`
    ch_id,         \* introspect_channel / search_and_introspect_channel: ch_id
    max_results,   \* the called method's max_results argument
    fv_max,        \* max_results as received by fetch_videos
    months,        \* fetch_video_statistics: months
    min_duration,  \* fetch_video_statistics: min_duration_minutes
    pc,            \* position in the client code
    channel_id,    \* value returned by resolve_channel_id
    videos,        \* fetch_videos: IDs of the basic records collected so far
    comments,      \* fetch_comments: IDs of the comments collected so far
    next_page,     \* next_page_token / next_page: 0 is None, k+1 is offset k
    fetched,       \* value returned by fetch_videos
    filtered,      \* value returned by fetch_video_statistics
    out,           \* value returned by the search methods
    ret,           \* "running", "returned", or the exception raised
    reqs,          \* log of the HTTP requests issued so far
    honest,        \* every page response so far honoured page size and cursor
    catalog,       \* upstream: the items available, in upload order
    upstream,      \* upstream: "strict" serves exact pages, "loose" may not
    now,           \* the clock, in hours
    \* the HubSpot job
    crm,           \* HubSpot: the contacts, contact i having ID i
    posts,         \* log of the search requests sent to HubSpot
    limit,         \* search_contacts_needing_update: limit
    contacts,      \* search_contacts_needing_update: the dict, in insertion order
    after,         \* search_contacts_needing_update: after (0 is None)
    idx,           \* main: position of the loop in the list of contacts
    jpc,           \* position in the job
    avg,           \* value returned by avg_views_last_30d, as num / den
    avg_exc,       \* the exception avg_views_last_30d raised, or "none"
    patches,       \* log of the PATCH requests sent to HubSpot
    events,        \* what process_contact printed, one record per contact
    \* is_stale_or_missing on its own
    iso_value,     \* the argument
    checked,       \* the function has returned
    stale,         \* the value returned
    \* the duration parsers on their own
    parser,        \* "client" or "script": the module whose parser is called
    dur_iso,       \* the argument
    parsed,        \* the function has returned
    dur_min        \* the value returned, in sixtieths of a minute

args == <<method, max_results, months, min_duration, catalog, upstream, now>>
cvars == <<args, cur, cont, call_arg, identifier, ch_id, fv_max, pc, channel_id,
           videos, comments, next_page, fetched, filtered, out, ret, reqs, honest>>

jvars == <<crm, posts, limit, contacts, after, idx, jpc, avg, avg_exc, patches, events>>
pvars == <<iso_value, checked, stale, parser, dur_iso, parsed, dur_min>>

vars == <<cvars, jvars, pvars>>

----------------------------------------------------------------------------
(* Bounds of the model *)

MaxPages == 2       \* max_results and totals reach MaxPages full pages
MaxPageReqs == 3    \* page requests issued in one call
MaxCat == 4         \* size of the catalogs with varied publish dates/durations
MaxHits == 2        \* items in the answer to a search request
Now0 == 2000        \* the clock when the call starts
MaxMonths == 2      \* fetch_video_statistics: months
MaxStat == 2        \* fetch_video_statistics: max_results
MaxDays == 1        \* days the clock advances
MaxContacts == 2    \* contacts in HubSpot
MaxAvgVideos == 3   \* videos of a channel whose average is computed
MaxSkew == 2        \* hours around the staleness cutoff
MaxDurLen == 5      \* length of the strings given to the duration parsers

(* Program constants *)

VIDEO_PAGE == 50
COMMENT_PAGE == 100
ID_MIN_LEN == 20
DAY == 24
WINDOW_DAYS == 30
STALE_DAYS == 30
MIN_DURATION_MINUTES == 3
FETCH_COUNT == 50
CRM_PAGE == 1000
MAIN_LIMIT == 200

Min(a, b) == IF a < b THEN a ELSE b
Max(a, b) == IF a > b THEN a ELSE b

----------------------------------------------------------------------------
(* Strings *)

None == <<"None">>          \* Python's None, distinct from every string

Str1(c) == <<c>>
RECURSIVE Pad(_)
Pad(n) == IF n <= 0 THEN <<>> ELSE <<"x">> \o Pad(n - 1)

StartsWith(s, p) == Len(s) >= Len(p) /\ SubSeq(s, 1, Len(p)) = p

RECURSIVE LStrip(_)
LStrip(s) == IF s # <<>> /\ Head(s) = " " THEN LStrip(Tail(s)) ELSE s

RECURSIVE RStripChar(_, _)
RStripChar(s, c) ==
    IF s # <<>> /\ s[Len(s)] = c THEN RStripChar(SubSeq(s, 1, Len(s) - 1), c) ELSE s

Strip(s) == RStripChar(LStrip(s), " ")

\* s.split("/")[-1]
LastSegment(s) ==
    IF \E i \in 1..Len(s) : s[i] = "/"
    THEN LET i == CHOOSE j \in 1..Len(s) : s[j] = "/" /\ \A k \in (j+1)..Len(s) : s[k] # "/"
         IN SubSeq(s, i + 1, Len(s))
    ELSE s

UC == <<"U", "C">>
HTTP == <<"h", "t", "t", "p">>

DigitChars == <<"0", "1", "2", "3", "4", "5", "6", "7", "8", "9">>
IsDigit(c) == \E i \in 1..10 : DigitChars[i] = c
DigitVal(c) == (CHOOSE i \in 1..10 : DigitChars[i] = c) - 1

\* number of digits of s starting at position i (the regex \d+ is greedy)
RECURSIVE DigitRun(_, _)
DigitRun(s, i) == IF i <= Len(s) /\ IsDigit(s[i]) THEN 1 + DigitRun(s, i + 1) ELSE 0

\* int() of the n digits of s starting at position i
RECURSIVE NumVal(_, _, _)
NumVal(s, i, n) ==
    IF n = 0 THEN 0 ELSE NumVal(s, i, n - 1) * 10 + DigitVal(s[i + n - 1])

----------------------------------------------------------------------------
(* Duration parser.  The result is in sixtieths of a minute, so that       *)
(* hours * 60 + minutes + seconds / 60.0 is the integer                    *)
(* 3600 * hours + 60 * minutes + seconds.                                  *)

\* one optional group (?:(\d+)X)? tried at position i
DurationGroup(s, i, letter) ==
    LET n == DigitRun(s, i)
    IN IF n >= 1 /\ i + n <= Len(s) /\ s[i + n] = letter
       THEN [val |-> NumVal(s, i, n), next |-> i + n + 1]
       ELSE [val |-> 0, next |-> i]

\* re.match(r"P(?:T(?:(\d+)H)?(?:(\d+)M)?(?:(\d+)S)?)", dur or "")
ParseDuration(dur) ==
    LET s == IF dur = None THEN <<>> ELSE dur
    IN IF ~StartsWith(s, <<"P", "T">>)
       THEN 0
       ELSE LET h == DurationGroup(s, 3, "H")
                m == DurationGroup(s, h.next, "M")
                sec == DurationGroup(s, m.next, "S")
            IN 3600 * h.val + 60 * m.val + sec.val

client_iso8601_duration_to_minutes(dur) == ParseDuration(dur)
iso8601_duration_to_minutes(dur) == ParseDuration(dur)

----------------------------------------------------------------------------
(* Dates.  A date value is None (fmt "none"), "" (fmt "empty"), a string dateutil cannot     *)
(* parse (fmt "bad"), or a timestamp (fmt "iso") with its wall clock t in  *)
(* hours and, when it names a UTC offset (aware), the offset tz in hours.  *)

NoDate == [fmt |-> "none", t |-> 0, aware |-> FALSE, tz |-> 0]
EmptyDate == [fmt |-> "empty", t |-> 0, aware |-> FALSE, tz |-> 0]
BadDate == [fmt |-> "bad", t |-> 0, aware |-> FALSE, tz |-> 0]
IsoDate(t, tz) == [fmt |-> "iso", t |-> t, aware |-> TRUE, tz |-> tz]
NaiveDate(t) == [fmt |-> "iso", t |-> t, aware |-> FALSE, tz |-> 0]
\* the instant of an aware datetime, in UTC hours
Instant(d) == d.t - d.tz

----------------------------------------------------------------------------
(* The upstream *)

\* the channel ID the search endpoint answers with
CanonId == UC \o Pad(22)

\* the kinds of answer to a page request
PageKinds == {"full", "short", "emptypage", "over", "restart"}
\* ... and those a given upstream gives
KindsOf(up) == IF up = "strict" THEN {"full"} ELSE PageKinds

\* The page the upstream serves when asked for n items after `cursor`, out
\* of `total`: items start+1 .. start+k, and whether a next-page token comes
\* with them.
PageResp(kind, cursor, n, total) ==
    LET rem == Max(total - cursor, 0)
        full == Min(n, rem)
    IN CASE kind = "full" -> [start |-> cursor, k |-> full, hasNext |-> rem - full > 0]
         [] kind = "short" ->
                [start |-> cursor, k |-> Max(full - 1, 0), hasNext |-> rem - Max(full - 1, 0) > 0]
         [] kind = "emptypage" -> [start |-> cursor, k |-> 0, hasNext |-> TRUE]
         [] kind = "over" ->
                [start |-> cursor, k |-> Min(n + 1, rem), hasNext |-> rem - Min(n + 1, rem) > 0]
         [] kind = "restart" ->
                [start |-> 0, k |-> Min(n, total), hasNext |-> total - Min(n, total) > 0]

\* the upstream honoured the requested page size, served the items that
\* follow the cursor, and announced a next page exactly when items remain
Honours(resp, cursor, n, total) ==
    /\ resp.start = cursor
    /\ resp.k <= n
    /\ resp.hasNext = (total - resp.start - resp.k > 0)

PageItems(resp) == [i \in 1..resp.k |-> resp.start + i]
PageToken(resp) == IF resp.hasNext THEN resp.start + resp.k + 1 ELSE 0
Cursor(tok) == IF tok = 0 THEN 0 ELSE tok - 1

\* the kinds of answer of the videos endpoint to a batch of IDs
DetailKinds == {"all", "dropfirst", "none"}
DetailIds(kind, ids) ==
    CASE kind = "all" -> {ids[i] : i \in 1..Len(ids)}
      [] kind = "dropfirst" -> {ids[i] : i \in 1..Len(ids)} \ {ids[1]}
      [] kind = "none" -> {}

----------------------------------------------------------------------------
(* YouTubeClient *)

NoQ == <<>>
NoIds == <<>>
\* _get, line 40: the request is issued and answered; the log keeps the
\* request's parameters and the kind of answer ("err" is a non-2xx status)
Get(path, q, n, tok, ids, resp) ==
    reqs' = Append(reqs, [path |-> path, q |-> q, n |-> n, tok |-> tok, ids |-> ids,
                          resp |-> resp])

\* a _get that swallows the failure, so that its caller asks again
HttpFailRetried ==
    /\ ret' = ret
    /\ pc' = pc

\* _get, line 41: resp.raise_for_status() raises on a non-2xx response, and
\* no caller catches it
HttpFail ==
    /\ ret' = "HTTPError"
    /\ pc' = "done"

Raise(exc) ==
    /\ ret' = exc
    /\ pc' = "done"

\* the shape check with the length bound off by one
IsCanonicalShapeOffByOne(s) == StartsWith(s, UC) /\ Len(s) > ID_MIN_LEN + 1

\* line 46: the canonical ID shape
IsCanonicalShape(s) == StartsWith(s, UC) /\ Len(s) > ID_MIN_LEN

\* lines 50-51: the trailing path segment of a URL
UrlSegment(s) == LastSegment(RStripChar(s, "/"))

\* line 52: the check applied to the trailing segment of a URL
SegmentIsId(possible) == StartsWith(possible, UC)

\* lines 46-54 of resolve_channel_id: the part before the search request.
\* found: the value is returned; otherwise the value is the search query.
ResolveLocal(id) ==
    IF IsCanonicalShape(id)
    THEN [found |-> TRUE, value |-> id]
    ELSE LET s == Strip(id)
         IN IF StartsWith(s, HTTP)
            THEN LET possible == UrlSegment(s)
                 IN IF SegmentIsId(possible)
                    THEN [found |-> TRUE, value |-> possible]
                    ELSE [found |-> FALSE, value |-> possible]
            ELSE [found |-> FALSE, value |-> s]

\* where the caller of resolve_channel_id goes on
AfterResolve(m) ==
    CASE m = "fetch_channel_info" -> "channels"
      [] m = "fetch_videos" -> "uploads"
      [] m = "search_youtube_channel_videos" -> "vsearch"

\* The method `cur` returns.  When the called method has further calls to
\* make (introspect_channel, search_and_introspect_channel,
\* fetch_video_statistics) the next one starts, with argument chv.
Return(chv) ==
    IF cont = <<>>
    THEN /\ ret' = "returned"
         /\ pc' = "done"
         /\ UNCHANGED <<cur, cont, call_arg, identifier, ch_id>>
    ELSE IF Head(cont) = "filter"
    THEN /\ pc' = "filter"
         /\ cur' = method
         /\ cont' = Tail(cont)
         /\ UNCHANGED <<ret, call_arg, identifier, ch_id>>
    ELSE /\ pc' = "resolve"
         /\ cur' = Head(cont)
         /\ cont' = Tail(cont)
         /\ call_arg' = chv
         /\ identifier' = chv
         /\ ch_id' = chv
         /\ UNCHANGED ret

\* resolve_channel_id, lines 44-54
Resolve ==
    /\ pc = "resolve"
    /\ LET r == ResolveLocal(identifier)
       IN IF r.found
          THEN /\ channel_id' = r.value
               /\ IF cur = "resolve_channel_id"
                  THEN Return(r.value)
                  ELSE /\ pc' = AfterResolve(cur)
                       /\ UNCHANGED <<ret, cur, cont, call_arg, identifier, ch_id>>
          ELSE /\ identifier' = r.value
               /\ pc' = "search"
               /\ UNCHANGED <<channel_id, ret, cur, cont, call_arg, ch_id>>
    /\ UNCHANGED <<jvars, pvars, args, fv_max, videos, comments, next_page, fetched, filtered,
                   out, reqs, honest>>

\* resolve_channel_id, lines 55-59
ResolveSearch ==
    /\ pc = "search"
    /\ \E resp \in {"err", "empty", "hit"} :
          /\ Get("search", identifier, 1, 0, NoIds, resp)
          /\ CASE resp = "err" ->
                     /\ HttpFail
                     /\ UNCHANGED <<channel_id, cur, cont, call_arg, identifier, ch_id>>
               [] resp = "empty" ->
                     /\ Raise("ValueError")
                     /\ UNCHANGED <<channel_id, cur, cont, call_arg, identifier, ch_id>>
               [] resp = "hit" ->
                     /\ channel_id' = CanonId
                     /\ IF cur = "resolve_channel_id"
                        THEN Return(CanonId)
                        ELSE /\ pc' = AfterResolve(cur)
                             /\ UNCHANGED <<ret, cur, cont, call_arg, identifier, ch_id>>
    /\ UNCHANGED <<jvars, pvars, args, fv_max, videos, comments, next_page, fetched, filtered,
                   out, honest>>

\* fetch_channel_info, lines 64-78
FetchChannelInfo ==
    /\ pc = "channels"
    /\ \E resp \in {"err", "empty", "hit"} :
          /\ Get("channels", channel_id, 0, 0, NoIds, resp)
          /\ CASE resp = "err" ->
                     /\ HttpFail
                     /\ UNCHANGED <<cur, cont, call_arg, identifier, ch_id>>
               [] resp = "empty" ->
                     /\ Raise("ValueError")
                     /\ UNCHANGED <<cur, cont, call_arg, identifier, ch_id>>
               [] resp = "hit" -> Return(ch_id)
    /\ UNCHANGED <<jvars, pvars, args, fv_max, channel_id, videos, comments, next_page, fetched,
                   filtered, out, honest>>

\* the number of requests to `path` issued so far
PageReqs(path) == Cardinality({i \in 1..Len(reqs) : reqs[i].path = path})

\* a page request that always asks for a whole page
PageAskWholePage(page, max, have) == page

\* lines 91 and 146: the maxResults parameter of a page request
PageAsk(page, max, have) == Min(page, max - have)

\* lines 90/102 and 145/160: the loop goes round again
LoopsOn(tok, have, max) == tok # 0 /\ have < max

\* lines 109-118: a basic record merged with the details item of the same ID
MergeRow(id, present) ==
    [id |-> id,
     publishedAt |-> catalog[id].pub,
     duration |-> IF present THEN catalog[id].dur ELSE None,
     viewCount |-> IF present THEN catalog[id].views ELSE None]

\* a merge that gives every record details as soon as the response has any
MergeAnyDetails(ids, kind) ==
    [i \in 1..Len(ids) |-> MergeRow(ids[i], kind # "none")]

Merge(ids, kind) ==
    [i \in 1..Len(ids) |-> MergeRow(ids[i], ids[i] \in DetailIds(kind, ids))]

\* line 86: what fetch_videos does when the channel lookup has no items
EmptyChannel ==
    /\ fetched' = <<>>
    /\ Return(ch_id)

\* fetch_videos, lines 83-89
FetchVideosUploads ==
    /\ pc = "uploads"
    /\ \E resp \in {"err", "empty", "hit"} :
          /\ Get("channels", channel_id, 0, 0, NoIds, resp)
          /\ CASE resp = "err" ->
                     /\ HttpFail
                     /\ UNCHANGED <<cur, cont, call_arg, identifier, ch_id, fetched>>
               [] resp = "empty" -> EmptyChannel
               [] resp = "hit" ->
                     /\ pc' = IF 0 < fv_max THEN "page" ELSE "details"
                     /\ UNCHANGED <<ret, cur, cont, call_arg, identifier, ch_id, fetched>>
    /\ videos' = <<>>
    /\ next_page' = 0
    /\ UNCHANGED <<jvars, pvars, args, fv_max, channel_id, comments, filtered, out, honest>>

\* fetch_videos, lines 90-103: one iteration of the page loop
FetchVideosPage ==
    /\ pc = "page"
    /\ PageReqs("playlistItems") < MaxPageReqs
    /\ LET n == PageAsk(VIDEO_PAGE, fv_max, Len(videos))
       IN \/ /\ Get("playlistItems", NoQ, n, next_page, NoIds, "err")
             /\ HttpFail
             /\ UNCHANGED <<videos, next_page, honest>>
          \/ \E kind \in KindsOf(upstream) :
                LET resp == PageResp(kind, Cursor(next_page), n, Len(catalog))
                    vs == videos \o PageItems(resp)
                    tok == PageToken(resp)
                IN /\ Get("playlistItems", NoQ, n, next_page, NoIds, kind)
                   /\ videos' = vs
                   /\ next_page' = tok
                   /\ honest' = (honest /\ Honours(resp, Cursor(next_page), n, Len(catalog)))
                   /\ pc' = IF LoopsOn(tok, Len(vs), fv_max) THEN "page" ELSE "details"
                   /\ UNCHANGED ret
    /\ UNCHANGED <<jvars, pvars, args, cur, cont, call_arg, identifier, ch_id, fv_max, channel_id,
                   comments, fetched, filtered, out>>

\* fetch_videos, lines 104-120
FetchVideosDetails ==
    /\ pc = "details"
    /\ IF videos = <<>>
       THEN /\ fetched' = <<>>
            /\ Return(ch_id)
            /\ UNCHANGED reqs
       ELSE \/ /\ Get("videos", NoQ, 0, 0, videos, "err")
               /\ HttpFail
               /\ UNCHANGED <<fetched, cur, cont, call_arg, identifier, ch_id>>
            \/ \E kind \in DetailKinds :
                  /\ Get("videos", NoQ, 0, 0, videos, kind)
                  /\ fetched' = Merge(videos, kind)
                  /\ Return(ch_id)
    /\ UNCHANGED <<jvars, pvars, args, fv_max, channel_id, videos, comments, next_page, filtered,
                   out, honest>>

\* fetch_video_details, lines 122-139
FetchVideoDetails ==
    /\ pc = "video_details"
    /\ \E resp \in {"err", "empty"} \cup (IF catalog # <<>> THEN {"hit"} ELSE {}) :
          /\ Get("videos", NoQ, 0, 0, <<1>>, resp)
          /\ CASE resp = "err" ->
                     /\ HttpFail
                     /\ UNCHANGED <<cur, cont, call_arg, identifier, ch_id, out>>
               [] resp = "empty" ->
                     /\ Raise("ValueError")
                     /\ UNCHANGED <<cur, cont, call_arg, identifier, ch_id, out>>
               [] resp = "hit" ->
                     /\ out' = Merge(<<1>>, "all")
                     /\ Return(ch_id)
    /\ UNCHANGED <<jvars, pvars, args, fv_max, channel_id, videos, comments, next_page, fetched,
                   filtered, honest>>

\* fetch_comments, lines 143-162: one iteration of the page loop, and the
\* return when the loop is over
FetchCommentsPage ==
    /\ pc = "cpage"
    /\ IF ~(Len(comments) < max_results)
       THEN /\ Return(ch_id)
            /\ UNCHANGED <<reqs, comments, next_page, honest>>
       ELSE /\ PageReqs("commentThreads") < MaxPageReqs
            /\ LET n == PageAsk(COMMENT_PAGE, max_results, Len(comments))
               IN \/ /\ Get("commentThreads", NoQ, n, next_page, NoIds, "err")
                     /\ HttpFail
                     /\ UNCHANGED <<comments, next_page, honest, cur, cont, call_arg,
                                    identifier, ch_id>>
                  \/ \E kind \in KindsOf(upstream) :
                        LET resp == PageResp(kind, Cursor(next_page), n, Len(catalog))
                            cs == comments \o PageItems(resp)
                            tok == PageToken(resp)
                        IN /\ Get("commentThreads", NoQ, n, next_page, NoIds, kind)
                           /\ comments' = cs
                           /\ next_page' = tok
                           /\ honest' = (honest /\ Honours(resp, Cursor(next_page), n,
                                                           Len(catalog)))
                           /\ IF LoopsOn(tok, Len(cs), max_results)
                              THEN /\ pc' = "cpage"
                                   /\ UNCHANGED <<ret, cur, cont, call_arg, identifier,
                                                  ch_id>>
                              ELSE Return(ch_id)
    /\ UNCHANGED <<jvars, pvars, args, fv_max, channel_id, videos, fetched, filtered, out>>

\* search_youtube_channels, lines 164-175, and the check of lines 180-182
\* when search_and_introspect_channel called it
SearchChannels ==
    /\ pc = "csearch"
    /\ \/ /\ Get("search", identifier, max_results, 0, NoIds, "err")
          /\ HttpFail
          /\ UNCHANGED <<out, cur, cont, call_arg, identifier, ch_id>>
       \/ \E k \in 0..MaxHits :
             /\ Get("search", identifier, max_results, 0, NoIds, "items")
             /\ out' = [i \in 1..k |-> [id |-> CanonId]]
             /\ IF method = "search_and_introspect_channel" /\ k = 0
                THEN /\ Raise("ValueError")
                     /\ UNCHANGED <<cur, cont, call_arg, identifier, ch_id>>
                ELSE Return(CanonId)
    /\ UNCHANGED <<jvars, pvars, args, fv_max, channel_id, videos, comments, next_page, fetched,
                   filtered, honest>>

\* search_youtube_channel_videos, lines 197-203
SearchChannelVideos ==
    /\ pc = "vsearch"
    /\ \/ /\ Get("search", NoQ, max_results, 0, NoIds, "err")
          /\ HttpFail
          /\ UNCHANGED <<out, videos, cur, cont, call_arg, identifier, ch_id>>
       \/ \E k \in 0..Min(MaxHits, Len(catalog)) :
             /\ Get("search", NoQ, max_results, 0, NoIds, "items")
             /\ videos' = [i \in 1..k |-> i]
             /\ out' = [i \in 1..k |-> MergeRow(i, FALSE)]
             /\ IF k = 0
                THEN Return(ch_id)
                ELSE /\ pc' = "vdetails"
                     /\ UNCHANGED <<ret, cur, cont, call_arg, identifier, ch_id>>
    /\ UNCHANGED <<jvars, pvars, args, fv_max, channel_id, comments, next_page, fetched, filtered,
                   honest>>

\* search_youtube_channel_videos, lines 204-213
SearchVideosDetails ==
    /\ pc = "vdetails"
    /\ \/ /\ Get("videos", NoQ, 0, 0, videos, "err")
          /\ HttpFail
          /\ UNCHANGED <<out, cur, cont, call_arg, identifier, ch_id>>
       \/ \E kind \in DetailKinds :
             /\ Get("videos", NoQ, 0, 0, videos, kind)
             /\ out' = Merge(videos, kind)
             /\ Return(ch_id)
    /\ UNCHANGED <<jvars, pvars, args, fv_max, channel_id, videos, comments, next_page, fetched,
                   filtered, honest>>

----------------------------------------------------------------------------
(* fetch_video_statistics *)

\* line 217: the number of videos asked of fetch_videos
StatsFetchCount(max) == max * 2

\* line 218
StatsCutoff(nowv, m) == nowv - WINDOW_DAYS * m * DAY

PT0S == <<"P", "T", "0", "S">>

\* lines 222-223
StatsDuration(v) ==
    client_iso8601_duration_to_minutes(
        IF v.duration = None \/ v.duration = <<>> THEN PT0S ELSE v.duration)

\* line 224
StatsQualifies(v, cutoff, mind) ==
    Instant(v.publishedAt) >= cutoff /\ StatsDuration(v) >= 60 * mind

StatRow(v) ==
    [videoId |-> v.id, publishedAt |-> v.publishedAt,
     durationMinutes |-> StatsDuration(v), viewCount |-> v.viewCount]

\* a loop that stops one video late
StatsFullLate(n, max) == n > max

\* line 233: the loop stops once the list is full
StatsFull(n, max) == n >= max

\* lines 219-235: the loop over the fetched videos, from video i on
RECURSIVE StatsLoop(_, _, _, _, _, _)
StatsLoop(vs, i, acc, cutoff, mind, max) ==
    IF i > Len(vs)
    THEN [exc |-> "none", rows |-> acc]
    ELSE LET v == vs[i]
         IN IF v.publishedAt.fmt # "iso"
            THEN [exc |-> "ParserError", rows |-> <<>>]
            ELSE IF ~v.publishedAt.aware
            THEN [exc |-> "TypeError", rows |-> <<>>]
            ELSE IF StatsQualifies(v, cutoff, mind)
            THEN IF StatsFull(Len(acc) + 1, max)
                 THEN [exc |-> "none", rows |-> Append(acc, StatRow(v))]
                 ELSE StatsLoop(vs, i + 1, Append(acc, StatRow(v)), cutoff, mind, max)
            ELSE StatsLoop(vs, i + 1, acc, cutoff, mind, max)

\* fetch_video_statistics, lines 218-235
FilterStats ==
    /\ pc = "filter"
    /\ LET r == StatsLoop(fetched, 1, <<>>, StatsCutoff(now, months), min_duration,
                          max_results)
       IN IF r.exc = "none"
          THEN /\ filtered' = r.rows
               /\ ret' = "returned"
          ELSE /\ filtered' = <<>>
               /\ ret' = r.exc
    /\ pc' = "done"
    /\ UNCHANGED <<jvars, pvars, args, cur, cont, call_arg, identifier, ch_id, fv_max, channel_id,
                   videos, comments, next_page, fetched, out, reqs, honest>>

----------------------------------------------------------------------------
(* Calls *)

\* the counts within one item of a whole number of pages
Near(page) ==
    {k \in 0..(MaxPages * page + 1) :
        \E q \in 0..MaxPages : k - q * page <= 1 /\ q * page - k <= 1}

\* the totals around a requested count: none, one less, as many, one more,
\* a page more
Around(max, page) == {n \in {0, max - 1, max, max + 1, max + page} : n >= 0}

\* a catalog of n items that all qualify
PT5M == <<"P", "T", "5", "M">>
PlainItem == [pub |-> IsoDate(Now0, 0), dur |-> PT5M, views |-> <<"1", "0", "0">>]
PlainCatalog(n) == [i \in 1..n |-> PlainItem]

Url == <<"h", "t", "t", "p", ":", "/", "/", "h", "/">>
Handle == <<"@", "x">>
PadLens == {0, 1, ID_MIN_LEN - 2, ID_MIN_LEN - 1, ID_MIN_LEN + 1}
Segments == {pre \o Pad(k) : pre \in {<<>>, UC, <<"@">>}, k \in PadLens}
Wrapped(seg) ==
    {seg, <<" ">> \o seg, seg \o <<" ">>, Url \o seg, Url \o seg \o <<"/">>,
     <<" ">> \o Url \o seg \o <<"/", " ">>, Url \o <<"c", "/">> \o seg}
Identifiers == UNION {Wrapped(seg) : seg \in Segments}
FewIdentifiers == {CanonId, Handle, Url \o UC \o Pad(2)}

\* the first position of each method, the calls it goes on to make, and the
\* max_results it hands to fetch_videos
FirstCall(m) ==
    CASE m = "introspect_channel" -> "resolve_channel_id"
      [] m = "search_and_introspect_channel" -> "search_youtube_channels"
      [] m = "fetch_video_statistics" -> "fetch_videos"
      [] OTHER -> m
FurtherCalls(m) ==
    CASE m \in {"introspect_channel", "search_and_introspect_channel"} ->
            <<"fetch_channel_info", "fetch_videos">>
      [] m = "fetch_video_statistics" -> <<"filter">>
      [] OTHER -> <<>>
FirstPc(m) ==
    CASE m = "fetch_video_details" -> "video_details"
      [] m = "fetch_comments" -> "cpage"
      [] m \in {"search_youtube_channels", "search_and_introspect_channel"} -> "csearch"
      [] OTHER -> "resolve"
FetchVideosArg(m, max) ==
    IF m = "fetch_video_statistics" THEN StatsFetchCount(max) ELSE max

Call(m, id, max, cat, up) ==
    /\ upstream = up
    /\ method = m
    /\ cur = FirstCall(m)
    /\ cont = FurtherCalls(m)
    /\ call_arg = id
    /\ identifier = id
    /\ ch_id = id
    /\ max_results = max
    /\ fv_max = FetchVideosArg(m, max)
    /\ pc = FirstPc(m)
    /\ channel_id = <<>>
    /\ videos = <<>>
    /\ comments = <<>>
    /\ next_page = 0
    /\ fetched = <<>>
    /\ filtered = <<>>
    /\ out = <<>>
    /\ ret = "running"
    /\ reqs = <<>>
    /\ honest = TRUE
    /\ catalog = cat

\* the same call, made in the course of the job
StartCall(m, id, max, cat) ==
    /\ method' = m
    /\ cur' = FirstCall(m)
    /\ cont' = FurtherCalls(m)
    /\ call_arg' = id
    /\ identifier' = id
    /\ ch_id' = id
    /\ max_results' = max
    /\ fv_max' = FetchVideosArg(m, max)
    /\ pc' = FirstPc(m)
    /\ channel_id' = <<>>
    /\ videos' = <<>>
    /\ comments' = <<>>
    /\ next_page' = 0
    /\ fetched' = <<>>
    /\ filtered' = <<>>
    /\ out' = <<>>
    /\ ret' = "running"
    /\ reqs' = <<>>
    /\ honest' = TRUE
    /\ catalog' = cat

\* no job is running
JobIdle ==
    /\ crm = <<>>
    /\ posts = <<>>
    /\ limit = 0
    /\ contacts = <<>>
    /\ after = 0
    /\ idx = 0
    /\ jpc = "idle"
    /\ avg = [num |-> 0, den |-> 1]
    /\ avg_exc = "none"
    /\ patches = <<>>
    /\ events = <<>>

StaleIdle ==
    /\ iso_value = NoDate
    /\ checked = TRUE
    /\ stale = TRUE

ParserIdle ==
    /\ parser = "client"
    /\ dur_iso = None
    /\ parsed = TRUE
    /\ dur_min = 0

----------------------------------------------------------------------------
(* The clock: a read of the clock returns the value of the last read or a  *)
(* later one.                                                              *)

ClockReads(t) == {u \in {t, t + DAY} : u <= Now0 + MaxDays * DAY}

----------------------------------------------------------------------------
(* avg_views_last_30d (scripts/avg_views_last_30d.py) *)

\* int(view): an optional sign and decimal digits
IsIntLiteral(str) ==
    LET body == IF str # <<>> /\ Head(str) \in {"-", "+"} THEN Tail(str) ELSE str
    IN body # <<>> /\ DigitRun(body, 1) = Len(body)
IntLiteral(str) ==
    IF Head(str) = "-" THEN 0 - NumVal(str, 2, Len(str) - 1)
    ELSE IF Head(str) = "+" THEN NumVal(str, 2, Len(str) - 1)
    ELSE NumVal(str, 1, Len(str))

\* int(float(view)) for digits "." digits: the fraction is cut off
IsFloatLiteral(str) ==
    LET n == DigitRun(str, 1)
    IN /\ n < Len(str)
       /\ str[n + 1] = "."
       /\ DigitRun(str, n + 2) = Len(str) - n - 1
       /\ Len(str) > 1
FloatLiteralTruncated(str) == NumVal(str, 1, DigitRun(str, 1))

\* lines 66-73: the view count as an integer, 0 when it cannot be read
ViewInt(view) ==
    IF view = None \/ view = <<>> THEN 0
    ELSE IF IsIntLiteral(view) THEN IntLiteral(view)
    ELSE IF IsFloatLiteral(view) THEN FloatLiteralTruncated(view)
    ELSE 0

\* line 50
AvgCutoff(nowv) == nowv - WINDOW_DAYS * DAY

\* a filter that also drops the video published at the cutoff
AvgTooOldOrAt(pub_dt, cutoff) == Instant(pub_dt) <= cutoff

\* lines 60-61: the video is too old
AvgTooOld(pub_dt, cutoff) == Instant(pub_dt) < cutoff

\* lines 62-65: the video is too short
AvgTooShort(v, min_minutes) == iso8601_duration_to_minutes(v.duration) < 60 * min_minutes

\* lines 51-74: the loop over the fetched videos, from video i on
RECURSIVE AvgLoop(_, _, _, _, _)
AvgLoop(vs, i, matching_views, cutoff, min_minutes) ==
    IF i > Len(vs)
    THEN [exc |-> "none", views |-> matching_views]
    ELSE LET v == vs[i]
             pub == v.publishedAt
         IN IF pub.fmt \in {"none", "empty"}
            THEN AvgLoop(vs, i + 1, matching_views, cutoff, min_minutes)
            ELSE IF pub.fmt = "bad"
            THEN AvgLoop(vs, i + 1, matching_views, cutoff, min_minutes)
            ELSE IF ~pub.aware
            THEN [exc |-> "TypeError", views |-> <<>>]
            ELSE IF AvgTooOld(pub, cutoff)
            THEN AvgLoop(vs, i + 1, matching_views, cutoff, min_minutes)
            ELSE IF AvgTooShort(v, min_minutes)
            THEN AvgLoop(vs, i + 1, matching_views, cutoff, min_minutes)
            ELSE AvgLoop(vs, i + 1, Append(matching_views, ViewInt(v.viewCount)), cutoff,
                         min_minutes)

RECURSIVE Sum(_)
Sum(seq) == IF seq = <<>> THEN 0 ELSE Head(seq) + Sum(Tail(seq))

\* lines 75-77: the mean as the fraction num / den, 0.0 being 0 / 1
Mean(matching_views) ==
    IF matching_views = <<>>
    THEN [num |-> 0, den |-> 1]
    ELSE [num |-> Sum(matching_views), den |-> Len(matching_views)]

\* avg_views_last_30d, lines 49-77, once client.fetch_videos has ended: an
\* exception of fetch_videos passes through
AvgViews ==
    /\ jpc = "compute"
    /\ pc = "done"
    /\ IF ret # "returned"
       THEN /\ avg_exc' = ret
            /\ UNCHANGED <<avg, now>>
       ELSE \E t \in ClockReads(now) :
               LET r == AvgLoop(fetched, 1, <<>>, AvgCutoff(t), min_duration)
               IN /\ now' = t
                  /\ avg_exc' = r.exc
                  /\ avg' = IF r.exc = "none" THEN Mean(r.views) ELSE avg
    /\ jpc' = "avg_done"
    /\ UNCHANGED <<crm, posts, limit, contacts, after, idx, patches, events,
                   pvars, method, max_results, months, min_duration,
                   catalog, upstream, cur, cont, call_arg, identifier, ch_id, fv_max, pc,
                   channel_id, videos, comments, next_page, fetched, filtered, out, ret,
                   reqs, honest>>

----------------------------------------------------------------------------
(* The HubSpot job (hubspot/hubspot_avg_views_last_30d.py) *)

\* line 79: today at midnight UTC, as HubSpot is sent it
iso_today_midnight_utc(nowv) == IsoDate((nowv \div DAY) * DAY, 0)

\* a comparison that takes the cutoff itself for stale
StaleBeforeOrAt(instant, cutoff) == instant <= cutoff

\* line 93: the date is before the cutoff
StaleBefore(instant, cutoff) == instant < cutoff

\* lines 82-93
is_stale_or_missing(value, nowv) ==
    IF value.fmt \in {"none", "empty"} THEN TRUE
    ELSE IF value.fmt = "bad" THEN TRUE
    ELSE LET dt == IF value.aware THEN value ELSE IsoDate(value.t, 0)
         IN StaleBefore(Instant(dt), nowv - STALE_DAYS * DAY)

\* line 127: the limit of a search request
SearchLimit(lim, have) == Min(CRM_PAGE, lim - have)

\* a list that takes the contact again when its ID is there already
DictAppend(dict, c) == Append(dict, c)

\* line 148: contacts[c["id"]] = c
DictPut(dict, c) ==
    IF \E i \in 1..Len(dict) : dict[i].id = c.id
    THEN [i \in 1..Len(dict) |-> IF dict[i].id = c.id THEN c ELSE dict[i]]
    ELSE Append(dict, c)

\* lines 143-148: the stale contacts of a page are put in the dict
RECURSIVE KeepStale(_, _, _, _)
KeepStale(dict, results, i, nowv) ==
    IF i > Len(results)
    THEN dict
    ELSE IF is_stale_or_missing(results[i].last_updated, nowv)
    THEN KeepStale(DictPut(dict, results[i]), results, i + 1, nowv)
    ELSE KeepStale(dict, results, i + 1, nowv)

\* a contact as the search hands it out
Contact(i) == [id |-> i, handle |-> crm[i].handle, last_updated |-> crm[i].last_updated]

\* search_contacts_needing_update, lines 107-153: one iteration of the
\* loop, and the return when the loop is over.  A failed search aborts main.
SearchPage ==
    /\ jpc = "search"
    /\ IF ~(Len(contacts) < limit)
       THEN /\ jpc' = "loop"
            /\ idx' = 1
            /\ UNCHANGED <<posts, contacts, after, now>>
       ELSE /\ Len(posts) < MaxPageReqs
            /\ LET n == SearchLimit(limit, Len(contacts))
               IN \/ /\ posts' = Append(posts, [limit |-> n, after |-> after, resp |-> "err"])
                     /\ jpc' = "aborted"
                     /\ UNCHANGED <<contacts, after, idx, now>>
                  \/ \E kind \in KindsOf(upstream), t \in ClockReads(now) :
                        LET resp == PageResp(kind, Cursor(after), n, Len(crm))
                            results == [i \in 1..resp.k |-> Contact(resp.start + i)]
                            dict == KeepStale(contacts, results, 1, t)
                            tok == PageToken(resp)
                        IN /\ posts' = Append(posts, [limit |-> n, after |-> after,
                                                      resp |-> kind])
                           /\ now' = t
                           /\ contacts' = dict
                           /\ after' = tok
                           /\ IF LoopsOn(tok, Len(dict), limit)
                              THEN UNCHANGED <<jpc, idx>>
                              ELSE jpc' = "loop" /\ idx' = 1
    /\ UNCHANGED <<crm, limit, avg, avg_exc, patches, events, pvars,
                   method, max_results, months, min_duration, catalog, upstream,
                   cur, cont, call_arg, identifier, ch_id, fv_max, pc, channel_id, videos,
                   comments, next_page, fetched, filtered, out, ret, reqs, honest>>

\* the channels the contacts' identifiers may stand for
ViewItem(view) == [pub |-> IsoDate(Now0, 0), dur |-> PT5M, views |-> view]
ViewCatalog(views) == [i \in 1..Len(views) |-> ViewItem(views[i])]
ExampleViews ==
    <<(<<"1", "0", "0">>), (<<"1", "5", "0">>), (<<"2", "0", "0">>), (<<"5", "0">>),
      (<<"5", "0", "0">>)>>
JobCatalogs ==
    {ViewCatalog(ExampleViews), ViewCatalog(<<(<<"2", "5", "0">>)>>),
     ViewCatalog(<<(<<"5", "0">>), (<<"3", "0", "0">>)>>)}

\* a loop that a failed contact ends
StopOnFailure(failed) == IF failed THEN "finished" ELSE "loop"

\* lines 227-232: process_contact catches what fails and returns, and the
\* for loop of main goes on with the next contact
Continue(failed) == "loop"

\* main, lines 227-232, and process_contact, lines 168-190, for the contact
\* at idx: the contact is left out, or avg_views_last_30d is called
MainLoop ==
    /\ jpc = "loop"
    /\ IF idx > Len(contacts)
       THEN /\ jpc' = "finished"
            /\ UNCHANGED <<idx, events, now, method, max_results, min_duration, catalog,
                           cur, cont, call_arg, identifier, ch_id, fv_max, pc, channel_id,
                           videos, comments, next_page, fetched, filtered, out, ret, reqs,
                           honest>>
       ELSE \E t \in ClockReads(now) :
               LET c == contacts[idx]
               IN /\ now' = t
                  /\ IF ~is_stale_or_missing(c.last_updated, t)
                     THEN /\ idx' = idx + 1
                          /\ events' = Append(events, [cid |-> c.id, kind |-> "fresh"])
                          /\ UNCHANGED <<jpc, method, max_results, min_duration, catalog,
                                         cur, cont, call_arg, identifier, ch_id, fv_max,
                                         pc, channel_id, videos, comments, next_page,
                                         fetched, filtered, out, ret, reqs, honest>>
                     ELSE IF c.handle = None \/ c.handle = <<>>
                     THEN /\ idx' = idx + 1
                          /\ events' = Append(events, [cid |-> c.id, kind |-> "skip"])
                          /\ UNCHANGED <<jpc, method, max_results, min_duration, catalog,
                                         cur, cont, call_arg, identifier, ch_id, fv_max,
                                         pc, channel_id, videos, comments, next_page,
                                         fetched, filtered, out, ret, reqs, honest>>
                     ELSE \E cat \in JobCatalogs :
                             /\ jpc' = "compute"
                             /\ StartCall("fetch_videos", c.handle, FETCH_COUNT, cat)
                             /\ min_duration' = MIN_DURATION_MINUTES
                             /\ UNCHANGED <<idx, events>>
    /\ UNCHANGED <<crm, posts, limit, contacts, after, avg, avg_exc, patches, pvars,
                   months, upstream>>

\* a rounding that cuts the average down to the hundred below
RoundHundredDown(a) == (a.num \div (100 * a.den)) * 100

\* the rounding of line 205: round(avg / 100) * 100, halves going to the
\* even neighbour
RoundHundred(a) ==
    LET d == 100 * a.den
        q == a.num \div d
        r == a.num % d
    IN IF 2 * r < d THEN q * 100
       ELSE IF 2 * r > d THEN (q + 1) * 100
       ELSE IF q % 2 = 0 THEN q * 100 ELSE (q + 1) * 100

\* f"{avg_rounded:.0f}" of line 207, for avg_rounded >= 0
RECURSIVE Format0f(_)
Format0f(n) ==
    IF n < 10 THEN <<DigitChars[n + 1]>>
    ELSE Format0f(n \div 10) \o <<DigitChars[(n % 10) + 1]>>

\* process_contact, lines 191-218, once avg_views_last_30d has ended
PatchContact ==
    /\ jpc = "avg_done"
    /\ LET c == contacts[idx]
       IN IF avg_exc # "none"
          THEN /\ events' = Append(events, [cid |-> c.id, kind |-> "calc_error"])
               /\ UNCHANGED <<crm, patches, now>>
          ELSE \E t \in ClockReads(now), ok \in BOOLEAN :
                  LET update_props == [avg_views |-> Format0f(RoundHundred(avg)),
                                       last_updated |-> iso_today_midnight_utc(t)]
                  IN /\ now' = t
                     /\ patches' = Append(patches, [cid |-> c.id, props |-> update_props,
                                                    avg |-> avg, at |-> t, ok |-> ok])
                     /\ crm' = IF ok
                               THEN [crm EXCEPT ![c.id].last_updated = update_props.last_updated,
                                                ![c.id].avg_views = update_props.avg_views]
                               ELSE crm
                     /\ events' = Append(events, [cid |-> c.id,
                                                  kind |-> IF ok THEN "ok" ELSE "patch_error"])
    /\ idx' = idx + 1
    /\ jpc' = Continue(avg_exc # "none")
    /\ UNCHANGED <<posts, limit, contacts, after, avg, avg_exc, pvars,
                   method, max_results, months, min_duration, catalog, upstream,
                   cur, cont, call_arg, identifier, ch_id, fv_max, pc, channel_id, videos,
                   comments, next_page, fetched, filtered, out, ret, reqs, honest>>

\* is_stale_or_missing called on its own
CheckStale ==
    /\ ~checked
    /\ checked' = TRUE
    /\ stale' = is_stale_or_missing(iso_value, now)
    /\ UNCHANGED <<iso_value, parser, dur_iso, parsed, dur_min, cvars, jvars>>

\* a duration parser called on its own
ParseCall ==
    /\ ~parsed
    /\ parsed' = TRUE
    /\ dur_min' = IF parser = "client"
                  THEN client_iso8601_duration_to_minutes(dur_iso)
                  ELSE iso8601_duration_to_minutes(dur_iso)
    /\ UNCHANGED <<parser, dur_iso, iso_value, checked, stale, cvars, jvars>>

Init ==
    /\ JobIdle
    /\ StaleIdle
    /\ ParserIdle
    /\ now = Now0
    /\ months = 1
    /\ min_duration = 0
    /\ \/ \E m \in {"resolve_channel_id", "fetch_channel_info"}, id \in Identifiers :
             Call(m, id, 0, <<>>, "loose")
       \/ \E id \in {CanonId, Handle}, max \in Near(VIDEO_PAGE) :
            \E n \in Around(max, VIDEO_PAGE) :
             Call("fetch_videos", id, max, PlainCatalog(n), "loose")
       \/ \E max \in Near(COMMENT_PAGE) :
            \E n \in Around(max, COMMENT_PAGE) :
             Call("fetch_comments", <<"v">>, max, PlainCatalog(n), "loose")
       \/ \E n \in 0..1 : Call("fetch_video_details", <<"v">>, 0, PlainCatalog(n), "loose")
       \/ \E max \in 0..MaxHits : Call("search_youtube_channels", Handle, max, <<>>, "loose")
       \/ \E id \in FewIdentifiers, max \in 0..MaxHits, n \in 0..MaxHits :
             Call("search_youtube_channel_videos", id, max, PlainCatalog(n), "loose")
       \/ \E m \in {"introspect_channel", "search_and_introspect_channel"},
             id \in FewIdentifiers, max \in 0..MaxHits, n \in 0..MaxHits :
             Call(m, id, max, PlainCatalog(n), "loose")

Next ==
    \/ Resolve
    \/ ResolveSearch
    \/ FetchChannelInfo
    \/ FetchVideosUploads
    \/ FetchVideosPage
    \/ FetchVideosDetails
    \/ FetchVideoDetails
    \/ FetchCommentsPage
    \/ SearchChannels
    \/ SearchChannelVideos
    \/ SearchVideosDetails

Spec == Init /\ [][Next]_vars

----------------------------------------------------------------------------
(* fetch_video_statistics on catalogs with varied publish dates and        *)
(* durations                                                               *)

PT3M == <<"P", "T", "3", "M">>
DefaultMinDuration == 3

\* Videos around the cutoff of a window of m months: one published at the
\* cutoff, one whose wall clock reads the cutoff in a zone an hour ahead (so
\* an hour before it), one without a duration, one with an unparseable date
\* and one with a date without a zone.
StatsItem(pub, dur) == [pub |-> pub, dur |-> dur, views |-> <<"7">>]
StatsItems(m) ==
    {StatsItem(IsoDate(Now0 - WINDOW_DAYS * m * DAY, 0), PT3M),
     StatsItem(IsoDate(Now0 - WINDOW_DAYS * m * DAY, 1), PT3M),
     StatsItem(IsoDate(Now0 - WINDOW_DAYS * m * DAY, 0), None),
     StatsItem(BadDate, PT3M),
     StatsItem(NaiveDate(Now0), PT3M)}
Catalogs(m) == UNION {[1..n -> StatsItems(m)] : n \in 0..MaxCat}

InitStats ==
    /\ JobIdle
    /\ StaleIdle
    /\ ParserIdle
    /\ now = Now0
    /\ \E m \in 1..MaxMonths, mind \in {0, DefaultMinDuration}, max \in 0..MaxStat :
        \E cat \in Catalogs(m) :
          /\ months = m
          /\ min_duration = mind
          /\ Call("fetch_video_statistics", CanonId, max, cat, "strict")

NextStats ==
    \/ Resolve
    \/ FetchVideosUploads
    \/ FetchVideosPage
    \/ FetchVideosDetails
    \/ FilterStats

SpecStats == InitStats /\ [][NextStats]_vars

----------------------------------------------------------------------------
(* Specifications of the calculator and of the job *)

\* no call of the client is in progress
ClientIdle ==
    /\ method = "none"
    /\ cur = "none"
    /\ cont = <<>>
    /\ call_arg = <<>>
    /\ identifier = <<>>
    /\ ch_id = <<>>
    /\ max_results = 0
    /\ fv_max = 0
    /\ pc = "done"
    /\ channel_id = <<>>
    /\ videos = <<>>
    /\ comments = <<>>
    /\ next_page = 0
    /\ fetched = <<>>
    /\ filtered = <<>>
    /\ out = <<>>
    /\ ret = "returned"
    /\ reqs = <<>>
    /\ honest = TRUE
    /\ catalog = <<>>

(* is_stale_or_missing on values around the cutoff *)

StaleInputs(nowv) ==
    {NoDate, EmptyDate, BadDate}
      \cup {IsoDate(nowv - STALE_DAYS * DAY + d + tz, tz) : d \in (0 - MaxSkew)..MaxSkew,
                                                            tz \in {0 - 1, 0, 1}}
      \cup {NaiveDate(nowv - STALE_DAYS * DAY + d) : d \in (0 - MaxSkew)..MaxSkew}

InitStale ==
    /\ JobIdle
    /\ ClientIdle
    /\ upstream = "strict"
    /\ months = 1
    /\ min_duration = 0
    /\ now \in Now0..(Now0 + MaxSkew)
    /\ iso_value \in StaleInputs(now)
    /\ checked = FALSE
    /\ stale = FALSE
    /\ ParserIdle

NextStale == CheckStale

SpecStale == InitStale /\ [][NextStale]_vars

(* The duration parsers on short strings and on well-formed durations *)

DurAlphabet == {"P", "T", "H", "M", "S", "1", "5"}
DurStrings == UNION {[1..k -> DurAlphabet] : k \in 0..MaxDurLen}

\* the digit strings of the components: absent, or up to MaxDurLen - 3 digits
DurDigits == UNION {[1..k -> {"1", "5"}] : k \in 0..(MaxDurLen - 3)}
DurComponent(digits, letter) == IF digits = <<>> THEN <<>> ELSE digits \o <<letter>>
DurForm(h, m, sec) ==
    <<"P", "T">> \o DurComponent(h, "H") \o DurComponent(m, "M") \o DurComponent(sec, "S")
DurForms == {DurForm(h, m, sec) : h \in DurDigits, m \in DurDigits, sec \in DurDigits}

InitDuration ==
    /\ JobIdle
    /\ ClientIdle
    /\ StaleIdle
    /\ upstream = "strict"
    /\ months = 1
    /\ min_duration = 0
    /\ now = Now0
    /\ parser \in {"client", "script"}
    /\ dur_iso \in DurStrings \cup DurForms \cup {None}
    /\ parsed = FALSE
    /\ dur_min = 0

NextDuration == ParseCall

SpecDuration == InitDuration /\ [][NextDuration]_vars

(* avg_views_last_30d on channels with varied videos *)

PT2M59S == <<"P", "T", "2", "M", "5", "9", "S">>
AvgItem(pub, dur, views) == [pub |-> pub, dur |-> dur, views |-> views]
AvgItems ==
    {AvgItem(IsoDate(Now0 - WINDOW_DAYS * DAY, 0), PT5M, <<"2", "5", "0">>),
     AvgItem(IsoDate(Now0 - WINDOW_DAYS * DAY, 1), PT5M, <<"1", "0", "0">>),
     AvgItem(IsoDate(Now0, 0), PT2M59S, <<"1", "0", "0">>),
     AvgItem(IsoDate(Now0, 0), PT3M, <<"1", "2", ".", "7">>),
     AvgItem(IsoDate(Now0, 0), PT5M, <<"a", "b", "c">>),
     AvgItem(IsoDate(Now0, 0), PT5M, None),
     AvgItem(IsoDate(Now0, 0), None, <<"1", "0", "0">>),
     AvgItem(NoDate, PT5M, <<"1", "0", "0">>),
     AvgItem(BadDate, PT5M, <<"1", "0", "0">>),
     AvgItem(NaiveDate(Now0), PT5M, <<"1", "0", "0">>)}
AvgCatalogs == UNION {[1..n -> AvgItems] : n \in 0..MaxAvgVideos}

InitAvg ==
    /\ StaleIdle
    /\ ParserIdle
    /\ crm = <<>>
    /\ posts = <<>>
    /\ limit = 0
    /\ contacts = <<>>
    /\ after = 0
    /\ idx = 0
    /\ jpc = "compute"
    /\ avg = [num |-> 0, den |-> 1]
    /\ avg_exc = "none"
    /\ patches = <<>>
    /\ events = <<>>
    /\ now = Now0
    /\ months = 1
    /\ \E min_minutes \in {0, MIN_DURATION_MINUTES}, fetch_count \in {MaxAvgVideos - 1, FETCH_COUNT} :
        \E cat \in AvgCatalogs :
          /\ min_duration = min_minutes
          /\ Call("fetch_videos", CanonId, fetch_count, cat, "strict")

NextAvg ==
    \/ Resolve
    \/ FetchVideosUploads
    \/ FetchVideosPage
    \/ FetchVideosDetails
    \/ AvgViews

SpecAvg == InitAvg /\ [][NextAvg]_vars

(* fetch_videos on channels whose videos differ, against any upstream *)

MergeItems ==
    {AvgItem(IsoDate(Now0, 0), PT5M, <<"2", "5", "0">>),
     AvgItem(IsoDate(Now0, 0), PT3M, <<"1", "0", "0">>),
     AvgItem(IsoDate(Now0, 0), PT2M59S, <<"7">>)}
MergeCatalogs == UNION {[1..n -> MergeItems] : n \in 0..MaxAvgVideos}

InitMerge ==
    /\ JobIdle
    /\ StaleIdle
    /\ ParserIdle
    /\ now = Now0
    /\ months = 1
    /\ min_duration = 0
    /\ \E max \in 0..(MaxAvgVideos + 1), cat \in MergeCatalogs :
          Call("fetch_videos", CanonId, max, cat, "loose")

NextMerge ==
    \/ Resolve
    \/ FetchVideosUploads
    \/ FetchVideosPage
    \/ FetchVideosDetails

SpecMerge == InitMerge /\ [][NextMerge]_vars

(* One run of the job *)

CrmContact(handle, last_updated) ==
    [handle |-> handle, last_updated |-> last_updated, avg_views |-> None]
CrmContacts ==
    {CrmContact(Handle, NoDate),
     CrmContact(None, NoDate),
     CrmContact(CanonId, IsoDate(Now0 - STALE_DAYS * DAY, 0))}
Crms == UNION {[1..n -> CrmContacts] : n \in 0..MaxContacts}

InitJob ==
    /\ StaleIdle
    /\ ParserIdle
    /\ ClientIdle
    /\ upstream = "strict"
    /\ months = 1
    /\ min_duration = 0
    /\ now = Now0
    /\ crm \in Crms
    /\ posts = <<>>
    /\ limit = MAIN_LIMIT
    /\ contacts = <<>>
    /\ after = 0
    /\ idx = 0
    /\ jpc = "search"
    /\ avg = [num |-> 0, den |-> 1]
    /\ avg_exc = "none"
    /\ patches = <<>>
    /\ events = <<>>

NextJob ==
    \/ SearchPage
    \/ MainLoop
    \/ Resolve
    \/ ResolveSearch
    \/ FetchVideosUploads
    \/ FetchVideosPage
    \/ FetchVideosDetails
    \/ AvgViews
    \/ PatchContact

SpecJob == InitJob /\ [][NextJob]_vars

(* search_contacts_needing_update against any upstream *)

SearchContacts ==
    {CrmContact(Handle, NoDate),
     CrmContact(Handle, IsoDate(Now0 - STALE_DAYS * DAY, 0)),
     CrmContact(Handle, IsoDate(Now0, 0))}
SearchCrms == UNION {[1..n -> SearchContacts] : n \in 0..MaxContacts}

InitSearch ==
    /\ StaleIdle
    /\ ParserIdle
    /\ ClientIdle
    /\ upstream = "loose"
    /\ months = 1
    /\ min_duration = 0
    /\ now = Now0
    /\ crm \in SearchCrms
    /\ posts = <<>>
    /\ limit \in 0..MaxContacts
    /\ contacts = <<>>
    /\ after = 0
    /\ idx = 0
    /\ jpc = "search"
    /\ avg = [num |-> 0, den |-> 1]
    /\ avg_exc = "none"
    /\ patches = <<>>
    /\ events = <<>>

NextSearch == SearchPage

SpecSearch == InitSearch /\ [][NextSearch]_vars

----------------------------------------------------------------------------
(* Properties of the client *)

Ids(rows) == {rows[i].id : i \in 1..Len(rows)}
Elems(seq) == {seq[i] : i \in 1..Len(seq)}
Returned(m) == method = m /\ pc = "done" /\ ret = "returned"
PageLog(path) == {i \in 1..Len(reqs) : reqs[i].path = path}

\* C1: when the upstream honours the requested page size and serves
\* distinct items across pages, fetch_videos (page size 50) and
\* fetch_comments (page size 100) return exactly min(max_results, total
\* available) items without duplicate IDs, and each page request asks for
\* min(page size, max_results - already collected) items.  (Against an
\* upstream that honours the cursor, the number already collected is the
\* offset the page token stands for.)
C1_Pagination ==
    /\ (Returned("fetch_videos") /\ honest /\ (max_results = 0 \/ PageLog("playlistItems") # {}))
          => /\ Len(fetched) = Min(max_results, Len(catalog))
             /\ Cardinality(Ids(fetched)) = Len(fetched)
    /\ (Returned("fetch_comments") /\ honest)
          => /\ Len(comments) = Min(max_results, Len(catalog))
             /\ Cardinality(Elems(comments)) = Len(comments)
    /\ honest =>
          /\ \A i \in PageLog("playlistItems") :
                reqs[i].n = Min(VIDEO_PAGE, fv_max - Cursor(reqs[i].tok))
          /\ \A i \in PageLog("commentThreads") :
                reqs[i].n = Min(COMMENT_PAGE, max_results - Cursor(reqs[i].tok))

\* a fetch_videos call that needed three pages and stopped at max_results
\* with more available upstream
C1_Witness ==
    /\ Returned("fetch_videos")
    /\ honest
    /\ Cardinality(PageLog("playlistItems")) >= 3
    /\ Len(fetched) = max_results
    /\ max_results < Len(catalog)

\* C2: resolve_channel_id called with a string that starts with "UC" and is
\* longer than 20 characters returns that exact string and issues no request.
C2_Passthrough ==
    (method = "resolve_channel_id" /\ StartsWith(call_arg, UC) /\ Len(call_arg) > ID_MIN_LEN)
       => /\ reqs = <<>>
          /\ pc \in {"resolve", "done"}
          /\ pc = "done" => (ret = "returned" /\ channel_id = call_arg)

\* an ID-shaped argument with trailing white space has been returned as is
C2_Witness ==
    /\ Returned("resolve_channel_id")
    /\ StartsWith(call_arg, UC)
    /\ Len(call_arg) > ID_MIN_LEN
    /\ Strip(call_arg) # call_arg
    /\ channel_id = call_arg

\* C3: given a URL, resolve_channel_id returns its trailing path segment
\* without a search request only if the segment starts with "UC" and is
\* longer than 20 characters; every other trailing segment is sent as the
\* search query.
C3_UrlSegmentShape ==
    (method = "resolve_channel_id" /\ StartsWith(Strip(call_arg), HTTP) /\ pc = "done")
       => LET seg == LastSegment(RStripChar(Strip(call_arg), "/"))
          IN IF StartsWith(seg, UC) /\ Len(seg) > ID_MIN_LEN
             THEN reqs = <<>> /\ ret = "returned" /\ channel_id = seg
             ELSE Len(reqs) = 1 /\ reqs[1].path = "search" /\ reqs[1].q = seg

\* C4: a channel or video lookup answered with zero items makes the method
\* raise the not-found error (ValueError); it never returns normally.
C4_EmptyLookupRaises ==
    \A i \in 1..Len(reqs) :
        reqs[i].resp = "empty" => (i = Len(reqs) /\ ret = "ValueError")

\* C10: the first non-2xx response ends the operation with the HTTP-status
\* error: it is the last request issued, and nothing is returned.
C10_HttpErrorPropagates ==
    \A i \in 1..Len(reqs) :
        reqs[i].resp = "err" =>
            /\ i = Len(reqs)
            /\ pc = "done"
            /\ ret = "HTTPError"
            /\ fetched = <<>>
            /\ filtered = <<>>

\* a page request of fetch_videos failed after a page had been collected
C10_Witness ==
    /\ method = "fetch_videos"
    /\ Len(reqs) >= 3
    /\ reqs[Len(reqs)].resp = "err"
    /\ reqs[Len(reqs)].path = "playlistItems"
    /\ videos # <<>>
    /\ ret = "HTTPError"

----------------------------------------------------------------------------
(* Properties of fetch_video_statistics *)

\* the positions of the fetched videos that pass both filters
QualifyingAt ==
    {i \in 1..Len(fetched) :
        /\ fetched[i].publishedAt.fmt = "iso"
        /\ fetched[i].publishedAt.aware
        /\ fetched[i].publishedAt.t - fetched[i].publishedAt.tz
              >= now - months * WINDOW_DAYS * DAY
        /\ ParseDuration(fetched[i].duration) >= 60 * min_duration}

\* the j-th smallest element of a set of positions
Nth(S, j) == CHOOSE i \in S : Cardinality({k \in S : k < i}) = j - 1

\* C9: fetch_video_statistics asks fetch_videos for 2*max_results videos
\* and returns the first max_results of them, in fetch order, that were
\* published within the trailing months*30 days and last at least
\* min_duration_minutes.
C9_Statistics ==
    /\ method = "fetch_video_statistics" => fv_max = 2 * max_results
    /\ Returned("fetch_video_statistics") =>
          /\ Len(filtered) = Min(max_results, Cardinality(QualifyingAt))
          /\ \A j \in 1..Len(filtered) :
                LET v == fetched[Nth(QualifyingAt, j)]
                IN /\ filtered[j].videoId = v.id
                   /\ filtered[j].publishedAt = v.publishedAt
                   /\ filtered[j].viewCount = v.viewCount

\* a call that skipped a video failing a filter, returned the qualifying
\* one after it, and left a later qualifying one out
C9_Witness ==
    /\ Returned("fetch_video_statistics")
    /\ Len(filtered) = max_results
    /\ Cardinality(QualifyingAt) > max_results
    /\ 1 \notin QualifyingAt
    /\ filtered # <<>>

----------------------------------------------------------------------------
(* Properties of avg_views_last_30d *)

\* the positions of the fetched videos published at or after the cutoff
\* that are long enough
AvgQualifyingAt ==
    {i \in 1..Len(fetched) :
        /\ fetched[i].publishedAt.fmt = "iso"
        /\ fetched[i].publishedAt.aware
        /\ fetched[i].publishedAt.t - fetched[i].publishedAt.tz >= now - WINDOW_DAYS * DAY
        /\ ParseDuration(fetched[i].duration) >= 60 * min_duration}

\* the integer a view count stands for
ViewsOf(view) ==
    CASE view = <<"2", "5", "0">> -> 250
      [] view = <<"1", "0", "0">> -> 100
      [] view = <<"1", "2", ".", "7">> -> 12
      [] OTHER -> 0

RECURSIVE SumViewsUpTo(_)
SumViewsUpTo(i) ==
    IF i = 0 THEN 0
    ELSE SumViewsUpTo(i - 1) + (IF i \in AvgQualifyingAt THEN ViewsOf(fetched[i].viewCount) ELSE 0)

----------------------------------------------------------------------------
(* Properties of the job *)

PatchesOf(cid) == {j \in 1..Len(patches) : patches[j].cid = cid}
Abs(x) == IF x < 0 THEN 0 - x ELSE x

\* C6: a contact with a channel identifier whose average was computed gets
\* exactly one PATCH; its average-views property is a multiple of 100
\* nearest to the average, and its last-updated property is midnight UTC of
\* the day of the PATCH.
C6_PatchRounded ==
    /\ \A i \in 1..Len(events) :
          events[i].kind \in {"ok", "patch_error"} =>
              Cardinality(PatchesOf(events[i].cid)) = 1
    /\ \A j \in 1..Len(patches) :
          LET value == NumVal(patches[j].props.avg_views, 1, Len(patches[j].props.avg_views))
              a == patches[j].avg
          IN /\ value % 100 = 0
             /\ 2 * Abs(value * a.den - a.num) <= 100 * a.den
             /\ patches[j].props.last_updated = IsoDate(patches[j].at - (patches[j].at % DAY), 0)
             /\ Cardinality(PatchesOf(patches[j].cid)) = 1

\* the contact whose channel has videos with 100, 150, 200, 50 and 500
\* views: average 200, PATCH value "200", and a timestamp earlier than the
\* time of the PATCH
C6_Witness ==
    \E j \in 1..Len(patches) :
        /\ patches[j].avg = [num |-> 1000, den |-> 5]
        /\ patches[j].props.avg_views = <<"2", "0", "0">>
        /\ patches[j].props.last_updated.t < patches[j].at
        /\ \E i \in 1..Len(events) : events[i] = [cid |-> patches[j].cid, kind |-> "ok"]

\* C7: the contacts the search returned are processed once each, in order,
\* whatever failed before: a failed calculation or PATCH does not stop the
\* run, and a contact whose calculation failed has no PATCH, keeps its
\* last-updated property and is still stale.
C7_BatchGoesOn ==
    /\ Len(events) <= Len(contacts)
    /\ \A i \in 1..Len(events) : events[i].cid = contacts[i].id
    /\ jpc \in {"loop", "compute", "avg_done"} => Len(events) = idx - 1
    /\ jpc = "finished" => Len(events) = Len(contacts)
    /\ \A i \in 1..Len(contacts), k \in 1..Len(contacts) :
          contacts[i].id = contacts[k].id => i = k
    /\ \A i \in 1..Len(events) :
          events[i].kind = "calc_error" =>
              /\ PatchesOf(events[i].cid) = {}
              /\ crm[events[i].cid].last_updated = contacts[i].last_updated
              /\ crm[events[i].cid].avg_views = None
              /\ is_stale_or_missing(crm[events[i].cid].last_updated, now)

\* a run that went on to the end after a failed calculation and after a
\* failed PATCH
C7_Witness ==
    /\ jpc = "finished"
    /\ Len(events) > 1
    /\ events[1].kind \in {"calc_error", "patch_error"}
    /\ events[Len(events)].kind = "ok"
    /\ \E i \in 1..Len(events) : events[i].kind = "calc_error"

----------------------------------------------------------------------------
(* Properties of is_stale_or_missing *)

\* C8: is_stale_or_missing is true for None, "" and a value that cannot be
\* parsed; for a value that can, it is true exactly when the value is
\* before now - STALE_DAYS, so that a value at the cutoff or after it is not
\* stale.
C8_StaleOrMissing ==
    checked =>
        stale = \/ iso_value.fmt # "iso"
                \/ iso_value.t - iso_value.tz < now - STALE_DAYS * DAY

\* a value with a UTC offset standing for the instant of the cutoff, found
\* not stale
C8_Witness ==
    /\ checked
    /\ iso_value.fmt = "iso"
    /\ iso_value.aware
    /\ iso_value.tz # 0
    /\ iso_value.t - iso_value.tz = now - STALE_DAYS * DAY
    /\ ~stale

----------------------------------------------------------------------------
(* Properties of the duration parsers *)

\* the value of a string of decimal digits, 0 for the empty string
DigitsValue(digits) == IF digits = <<>> THEN 0 ELSE NumVal(digits, 1, Len(digits))

\* the components of a well-formed duration
DurComponents(str) ==
    CHOOSE c \in DurDigits \X DurDigits \X DurDigits : DurForm(c[1], c[2], c[3]) = str

\* C11: a duration parser returns 60*h + m + s/60 minutes for "PT" followed
\* by optional hours, minutes and seconds components, and zero minutes for
\* None, for the empty string and for every string that is not entirely of
\* that form.
C11_DurationParser ==
    parsed =>
        IF dur_iso \in DurForms
        THEN LET c == DurComponents(dur_iso)
             IN dur_min = 3600 * DigitsValue(c[1]) + 60 * DigitsValue(c[2]) + DigitsValue(c[3])
        ELSE dur_min = 0

----------------------------------------------------------------------------
(* Properties of the details request of fetch_videos *)

\* the IDs the details response of kind `kind` has an item for
DetailsServed(kind) ==
    CASE kind = "all" -> Elems(videos)
      [] kind = "dropfirst" -> Elems(videos) \ {videos[1]}
      [] OTHER -> {}

\* C12: fetch_videos issues the details request after its last playlist
\* page, once when at least one ID was collected and not at all when none
\* was (it then returns the empty list of basic records); the request names
\* all collected IDs, and the returned list has the length and order of the
\* collected one, each record with the duration and view count of the
\* details item of its ID, or None when the response has no such item.
C12_DetailsRequest ==
    /\ Cardinality(PageLog("videos")) <= 1
    /\ \A i \in PageLog("videos") :
          /\ \A j \in PageLog("playlistItems") : j < i
          /\ pc = "done"
          /\ reqs[i].ids = videos
          /\ videos # <<>>
    /\ Returned("fetch_videos") =>
          /\ videos # <<>> => Cardinality(PageLog("videos")) = 1
          /\ videos = <<>> => (PageLog("videos") = {} /\ fetched = <<>>)
          /\ Len(fetched) = Len(videos)
          /\ \A k \in 1..Len(fetched) :
                LET served == \E i \in PageLog("videos") :
                                 videos[k] \in DetailsServed(reqs[i].resp)
                IN /\ fetched[k].id = videos[k]
                   /\ fetched[k].publishedAt = catalog[videos[k]].pub
                   /\ fetched[k].duration = IF served THEN catalog[videos[k]].dur ELSE None
                   /\ fetched[k].viewCount = IF served THEN catalog[videos[k]].views ELSE None

\* a call that collected different videos over two pages and got details
\* for all but the first of them
C12_Witness ==
    /\ Returned("fetch_videos")
    /\ Cardinality(PageLog("playlistItems")) >= 2
    /\ Len(fetched) >= 2
    /\ fetched[1].duration = None
    /\ fetched[2].duration # None
    /\ fetched[2].duration # catalog[videos[1]].dur
    /\ \E i \in PageLog("videos") : reqs[i].resp = "dropfirst"

----------------------------------------------------------------------------
(* Properties of search_contacts_needing_update *)

\* the answer of the upstream to the i-th search request
SearchResp(i) == PageResp(posts[i].resp, Cursor(posts[i].after), posts[i].limit, Len(crm))

\* the upstream never served more contacts than a request asked for
LimitHonoured ==
    \A i \in 1..Len(posts) : posts[i].resp # "err" => SearchResp(i).k <= posts[i].limit

\* the upstream honoured limit and cursor, and announced a next page
\* exactly when contacts remained
SearchHonest ==
    \A i \in 1..Len(posts) :
        posts[i].resp # "err" =>
            Honours(SearchResp(i), Cursor(posts[i].after), posts[i].limit, Len(crm))

\* the contacts of the CRM that are stale at time t
StaleAt(t) ==
    {i \in 1..Len(crm) :
        \/ crm[i].last_updated.fmt # "iso"
        \/ crm[i].last_updated.t - crm[i].last_updated.tz < t - STALE_DAYS * DAY}

\* C13: search_contacts_needing_update gathers only stale or missing
\* contacts, each ID once, and no more than limit when the upstream honours
\* the limit of the requests; each further request carries the cursor of
\* the page before, and the search ends only with limit contacts gathered
\* or without a further page, so that against an upstream that pages
\* honestly all contacts that were stale when the search began are returned
\* when at most limit contacts are stale when it ends.
C13_SearchStale ==
    /\ \A i \in 1..Len(contacts) :
          \/ contacts[i].last_updated.fmt # "iso"
          \/ contacts[i].last_updated.t - contacts[i].last_updated.tz < now - STALE_DAYS * DAY
    /\ \A i \in 1..Len(contacts), k \in 1..Len(contacts) :
          contacts[i].id = contacts[k].id => i = k
    /\ LimitHonoured => Len(contacts) <= limit
    /\ \A i \in 1..Len(posts) :
          /\ posts[i].after = IF i = 1 THEN 0 ELSE PageToken(SearchResp(i - 1))
          /\ i > 1 => posts[i].after # 0
    /\ jpc = "loop" =>
          \/ Len(contacts) >= limit
          \/ posts # <<>> /\ PageToken(SearchResp(Len(posts))) = 0
    /\ (jpc = "loop" /\ SearchHonest /\ Cardinality(StaleAt(now)) <= limit) =>
          \A i \in StaleAt(Now0) : \E k \in 1..Len(contacts) : contacts[k].id = i

\* a search whose first page held a contact that is not stale and no other,
\* and that went on to return the stale contact of the second page
C13_Witness ==
    /\ jpc = "loop"
    /\ SearchHonest
    /\ Len(posts) = 2
    /\ SearchResp(1).k = 1
    /\ posts[2].limit = limit
    /\ StaleAt(Now0) # {}
    /\ Cardinality(StaleAt(now)) = Len(contacts)

----------------------------------------------------------------------------
(* Termination of the page loops *)

\* C14: whatever the upstream answers, a call of fetch_videos or
\* fetch_comments issues at most max_results page requests, each request
\* adding a record or being the last.
C14_PageLoopsEnd ==
    /\ PageReqs("playlistItems") <= fv_max
    /\ PageReqs("commentThreads") <= max_results

====
